---- MODULE Spec2Model ----
(***************************************************************************)
(* StampDispenser (src/StampDispenser.cpp): validation of a denomination   *)
(* list at construction and the memoized recursive minimum-stamp query.    *)
(* The recursion of CalcNumStamps is modelled with an explicit call stack, *)
(* one frame per activation, one action per step of the body.              *)
(***************************************************************************)
EXTENDS Integers, Sequences, FiniteSets, TLC

\* ---------------------------------------------------------------- bounds
MaxLen == 3
MaxDenom == 6
MaxRequest == 10
MaxShippedRequest == 100

\* ------------------------------------------------------ program constants
INT_MAX == 2147483647

Shipped1 == <<90, 30, 24, 10, 6, 2, 1>>
Shipped2 == <<6, 4, 1>>

\* the commented-out bad arrays of main(), lines 185-193
NotDescending == <<1, 2, 3>>
NoUnit == <<4, 3, 2>>
HasNegative == <<4, 3, 2, 1, -1>>

NoResult == -1

VARIABLES
    given,                  \* the array handed to the constructor
    divByZero,              \* what this build does on an integer division by 0
    pc,                     \* "init","ready","call","loop","return","done","aborted"
    m_denominationVector,   \* the solver's stored denominations
    abortReason,            \* which assertion / trap ended the process
    request,                \* argument of the running CalcNumStampsToFillRequest
    memoizationVect,        \* the query's memo table, entry a+1 is amount a
    stack,                  \* activations of CalcNumStamps, innermost last
    retval,                 \* value returned by the activation that just ended
    result,                 \* value returned by CalcNumStampsToFillRequest
    computeCount,           \* per amount: activations that got past the memo test
    firstReq,               \* request of the solver's first completed query
    firstRes                \* and the value it returned

vars == <<given, divByZero, pc, m_denominationVector, abortReason, request,
          memoizationVect, stack, retval, result, computeCount, firstReq, firstRes>>

\* ---------------------------------------------------------------- helpers
Min(S) == CHOOSE x \in S : \A y \in S : x <= y

Range(s) == {s[i] : i \in 1..Len(s)}

SeqsUpTo(S, n) == UNION {[1..k -> S] : k \in 0..n}

\* std::min, line 151
StdMin(a, b) == IF b < a THEN b ELSE a

\* ------------------------------------------------------------ ValidateInput
\* line 46: assert(lastVal >= stampDenominations[i])
SortedCheckStrict(lastVal, v) == lastVal > v
SortedCheck(lastVal, v) == lastVal >= v

\* line 49: assert(stampDenominations[i] >= 0)
NonNegativeCheck(v) == v >= 0

\* lines 43-61: the loop, returning the assertion that fires or "ok"
RECURSIVE ValidateLoop(_, _, _, _)
ValidateLoop(s, i, lastVal, oneFound) ==
    IF i > Len(s)
    THEN (IF oneFound THEN "ok" ELSE "missing-unit")
    ELSE IF ~SortedCheck(lastVal, s[i]) THEN "unsorted"
    ELSE IF ~NonNegativeCheck(s[i]) THEN "negative-value"
    ELSE ValidateLoop(s, i + 1, s[i], oneFound \/ (1 = s[i]))

\* lines 35-65
ValidateInput(s) ==
    IF ~(0 < Len(s)) THEN "empty" ELSE ValidateLoop(s, 1, INT_MAX, FALSE)

\* ------------------------------------------------- CalcNumStampsToFillRequest
\* line 106: assert(request >= 0)
RequestCheckNone(r) == TRUE
RequestCheck(r) == r >= 0

\* lines 109-114: a table of request+1 entries, all -1
ZeroMemo(r) == [i \in 1..(r + 1) |-> 0]
FreshMemo(r) == [i \in 1..(r + 1) |-> -1]

\* ------------------------------------------------------------ CalcNumStamps
\* line 135: if (memoizationVect[request] >= 0)
MemoHit(memo, a) == memo[a + 1] >= 0

\* line 148: if (request / (*it) > 0), for a non-zero denominator
UsableMoreThanOnce(a, d) == a \div d > 1
Usable(a, d) == a \div d > 0

\* lines 151-152: (request / (*it)) + CalcNumStamps(request % (*it), ...)
BranchOneStamp(a, d, sub) == 1 + sub
Branch(a, d, sub) == (a \div d) + sub

\* line 152: the argument of the recursive call
Remainder(a, d) == a % d

\* line 156: memoizationVect[request] = min_val
MemoStoreDropped(memo, a, v) == memo
MemoStore(memo, a, v) == [memo EXCEPT ![a + 1] = v]

Frame(a) == [request |-> a, it |-> 0, min_val |-> INT_MAX]

Top == stack[Len(stack)]
Pop == SubSeq(stack, 1, Len(stack) - 1)
SetTop(f) == [stack EXCEPT ![Len(stack)] = f]

\* ------------------------------------------------------------------- Init
Inputs == SeqsUpTo(-1..MaxDenom, MaxLen) \cup {NotDescending, NoUnit, HasNegative}

InitCommon ==
    /\ divByZero \in {"trap", "zero"}
    /\ pc = "init"
    /\ m_denominationVector = <<>>
    /\ abortReason = "none"
    /\ request = 0
    /\ memoizationVect = <<>>
    /\ stack = <<>>
    /\ retval = NoResult
    /\ result = NoResult
    /\ computeCount = <<>>
    /\ firstReq = NoResult
    /\ firstRes = NoResult

Init == given \in Inputs /\ InitCommon

InitShipped == given \in {Shipped1, Shipped2} /\ InitCommon

\* ---------------------------------------------------------------- actions
\* StampDispenser::StampDispenser, lines 79-90
Construct ==
    /\ pc = "init"
    /\ LET v == ValidateInput(given) IN
         IF v = "ok"
         THEN /\ m_denominationVector' = given
              /\ pc' = "ready"
              /\ UNCHANGED abortReason
         ELSE /\ pc' = "aborted"
              /\ abortReason' = v
              /\ UNCHANGED m_denominationVector
    /\ UNCHANGED <<given, divByZero, request, memoizationVect, stack, retval,
                   result, computeCount, firstReq, firstRes>>

\* StampDispenser::CalcNumStampsToFillRequest, lines 103-116 up to the call
StartQuery(r) ==
    /\ pc = "ready"
    /\ request' = r
    /\ IF ~RequestCheck(r)
       THEN /\ pc' = "aborted"
            /\ abortReason' = "request"
            /\ UNCHANGED <<memoizationVect, stack, computeCount>>
       ELSE /\ memoizationVect' = FreshMemo(r)
            /\ computeCount' = [i \in 1..(r + 1) |-> 0]
            /\ stack' = <<Frame(r)>>
            /\ pc' = "call"
            /\ UNCHANGED abortReason
    /\ UNCHANGED <<given, divByZero, m_denominationVector, retval, result,
                   firstReq, firstRes>>

\* CalcNumStamps, lines 135-143: memo test, base case, min_val = INT_MAX
CallEntry ==
    /\ pc = "call"
    /\ LET a == Top.request IN
         IF MemoHit(memoizationVect, a)
         THEN /\ retval' = memoizationVect[a + 1]
              /\ pc' = "return"
              /\ UNCHANGED <<stack, computeCount>>
         ELSE /\ computeCount' = [computeCount EXCEPT ![a + 1] = @ + 1]
              /\ IF 0 = a
                 THEN /\ retval' = 0
                      /\ pc' = "return"
                      /\ UNCHANGED stack
                 ELSE /\ stack' = SetTop([Top EXCEPT !.it = 1, !.min_val = INT_MAX])
                      /\ pc' = "loop"
                      /\ UNCHANGED retval
    /\ UNCHANGED <<given, divByZero, m_denominationVector, abortReason, request,
                   memoizationVect, result, firstReq, firstRes>>

\* CalcNumStamps, lines 145-158: one test of the for loop
LoopStep ==
    /\ pc = "loop"
    /\ LET f == Top
           a == f.request
       IN
         IF f.it > Len(m_denominationVector)
         THEN \* lines 156-158
              /\ memoizationVect' = MemoStore(memoizationVect, a, f.min_val)
              /\ retval' = f.min_val
              /\ pc' = "return"
              /\ UNCHANGED <<stack, abortReason>>
         ELSE LET d == m_denominationVector[f.it] IN
              IF d = 0
              THEN \* line 148 divides by zero: undefined behaviour
                   IF divByZero = "trap"
                   THEN /\ pc' = "aborted"
                        /\ abortReason' = "div-by-zero"
                        /\ UNCHANGED <<stack, memoizationVect, retval>>
                   ELSE \* the quotient comes out 0: the branch is skipped
                        /\ stack' = SetTop([f EXCEPT !.it = @ + 1])
                        /\ UNCHANGED <<pc, abortReason, memoizationVect, retval>>
              ELSE IF Usable(a, d)
              THEN /\ stack' = Append(stack, Frame(Remainder(a, d)))
                   /\ pc' = "call"
                   /\ UNCHANGED <<abortReason, memoizationVect, retval>>
              ELSE /\ stack' = SetTop([f EXCEPT !.it = @ + 1])
                   /\ UNCHANGED <<pc, abortReason, memoizationVect, retval>>
    /\ UNCHANGED <<given, divByZero, m_denominationVector, request, result,
                   computeCount, firstReq, firstRes>>

\* return of an activation: to line 151 of the caller, or to line 116
Return ==
    /\ pc = "return"
    /\ IF Len(stack) = 1
       THEN /\ result' = retval
            /\ stack' = <<>>
            /\ pc' = "done"
       ELSE LET c == stack[Len(stack) - 1]
                d == m_denominationVector[c.it]
                m == StdMin(c.min_val, Branch(c.request, d, retval))
            IN /\ stack' = [Pop EXCEPT ![Len(stack) - 1] =
                                [c EXCEPT !.it = @ + 1, !.min_val = m]]
               /\ pc' = "loop"
               /\ UNCHANGED result
    /\ UNCHANGED <<given, divByZero, m_denominationVector, abortReason, request,
                   memoizationVect, retval, computeCount, firstReq, firstRes>>

\* the caller has the value; the query's locals are gone (line 117)
Finish ==
    /\ pc = "done"
    /\ pc' = "ready"
    /\ memoizationVect' = <<>>
    /\ computeCount' = <<>>
    /\ retval' = NoResult
    /\ result' = NoResult
    /\ IF firstReq = NoResult
       THEN firstReq' = request /\ firstRes' = result
       ELSE UNCHANGED <<firstReq, firstRes>>
    /\ UNCHANGED <<given, divByZero, m_denominationVector, abortReason, request, stack>>

Query == \E r \in -1..MaxRequest : StartQuery(r)

QueryShipped == \E r \in 0..MaxShippedRequest : StartQuery(r)

Next == Construct \/ Query \/ CallEntry \/ LoopStep \/ Return \/ Finish

Spec == Init /\ [][Next]_vars

\* one query per run on each of the two solvers main() builds
NextShipped == Construct \/ QueryShipped \/ CallEntry \/ LoopStep \/ Return

SpecShipped == InitShipped /\ [][NextShipped]_vars

\* ------------------------------------------------------ reference notions
Max(S) == CHOOSE x \in S : \A y \in S : x >= y

AllPositive(D) == \A i \in 1..Len(D) : D[i] >= 1

\* the totals one more stamp of D makes from the totals S, up to cap
OneMore(D, S, cap) ==
    {t \in {s + d : s \in S, d \in {x \in Range(D) : x >= 1}} : t <= cap}

\* the true optimum: the least k such that k stamps of D sum to n
RECURSIVE LeastCount(_, _, _, _)
LeastCount(D, n, k, S) ==
    IF n \in S \/ k > n THEN k ELSE LeastCount(D, n, k + 1, OneMore(D, S, n))

Opt(D, n) == LeastCount(D, n, 0, {0})

\* the recurrence f of the specification, without a table
RECURSIVE RefRecurrence(_, _)
RefRecurrence(D, r) ==
    IF r = 0 THEN 0
    ELSE Min({(r \div D[i]) + RefRecurrence(D, r % D[i]) :
                 i \in {j \in 1..Len(D) : D[j] <= r}})

\* largest-first greedy
RECURSIVE Greedy(_, _)
Greedy(D, r) ==
    IF r = 0 THEN 0
    ELSE LET d == Max({x \in Range(D) : x <= r})
         IN (r \div d) + Greedy(D, r % d)

\* the totals that exactly n stamps of D can make, up to cap
RECURSIVE Sums(_, _, _)
Sums(D, n, cap) ==
    IF n = 0 THEN {0}
    ELSE {t \in {s + d : s \in Sums(D, n - 1, cap), d \in Range(D)} : t <= cap}

ValidList(s) ==
    /\ Len(s) > 0
    /\ \A i \in 2..Len(s) : s[i] <= s[i - 1]
    /\ \A i \in 1..Len(s) : s[i] >= 0
    /\ \E i \in 1..Len(s) : s[i] = 1

ValidationAborted ==
    /\ pc = "aborted"
    /\ abortReason \in {"empty", "unsorted", "negative-value", "missing-unit"}

\* ------------------------------------------------------------------ claims

\* C1: for every accepted denomination set and every request >= 0 the query
\* returns the least number of stamps whose values sum to the request.
C1_ReturnsMinimum ==
    pc = "done" => result = Opt(m_denominationVector, request)

\* C2: for accepted sets of values >= 1 the memoized query equals the
\* recurrence f(0) = 0, f(r) = min over d <= r of floor(r/d) + f(r mod d),
\* and the test request / d > 0 selects exactly the d <= request.
C2_MatchesRecurrence ==
    (pc = "done" /\ AllPositive(given)) =>
        /\ result = RefRecurrence(given, request)
        /\ \A a \in 0..request : \A d \in Range(given) : Usable(a, d) <=> d <= a

C2_Witness ==
    pc = "done" /\ given = Shipped2 /\ request = 8 /\ result = 2

\* C3: construction stores exactly the given list iff it is non-empty,
\* non-increasing, non-negative and contains 1; otherwise a validation
\* assertion fires and no denominations are stored.
C3_ConstructIffValid ==
    pc # "init" =>
        /\ ValidList(given) => ~ValidationAborted /\ m_denominationVector = given
        /\ ~ValidList(given) => ValidationAborted /\ m_denominationVector = <<>>
        /\ given = <<>> => abortReason = "empty"
        /\ given \in {NotDescending, NoUnit, HasNegative} => ValidationAborted

C3_Witness ==
    pc = "aborted" /\ given = HasNegative /\ abortReason = "negative-value"

\* C4: a negative request fails on the request assertion before any work:
\* no memo table, no activation of the recursion, no returned count.
C4_NegativeRequestFailsFirst ==
    /\ request < 0 => pc = "aborted" /\ abortReason = "request"
    /\ (pc = "aborted" /\ abortReason = "request") =>
           /\ request < 0
           /\ memoizationVect = <<>>
           /\ computeCount = <<>>
           /\ stack = <<>>
           /\ result = NoResult

C4_Witness ==
    pc = "aborted" /\ abortReason = "request" /\ request = -1 /\ firstReq # NoResult

\* C5: for every list that passes validation and every request >= 0 every
\* step of the recursion is defined, each recursive call is on a strictly
\* smaller amount, and the result for request > 0 is never INT_MAX.
C5_AlwaysDefined ==
    /\ ~(pc = "aborted" /\ abortReason = "div-by-zero")
    /\ \A i \in 2..Len(stack) : stack[i].request < stack[i - 1].request
    /\ (pc = "done" /\ request > 0) => result # INT_MAX

\* C6: a query for r after any sequence of queries returns what the first
\* query on the fresh solver returned for r; the denominations are unchanged
\* and each query starts from a table whose entries are all -1.
C6_NoStateSurvives ==
    /\ (pc = "done" /\ firstReq # NoResult /\ request = firstReq) => result = firstRes
    /\ pc \in {"ready", "call", "loop", "return", "done"} => m_denominationVector = given
    /\ (pc = "call" /\ Len(stack) = 1) =>
           /\ Len(memoizationVect) = request + 1
           /\ \A i \in 1..Len(memoizationVect) : memoizationVect[i] = -1

C6_Witness ==
    /\ pc = "done" /\ firstReq # NoResult /\ request = firstReq
    /\ given = Shipped2 /\ request = 8 /\ result = 2

\* C7: on the two shipped sets the result is the true optimum for every
\* request in 0..100, with minCount(18) = 3 on the first and minCount(8) = 2,
\* minCount(0) = 0 on the second.
C7_ShippedOptimal ==
    pc = "done" =>
        /\ result = Opt(given, request)
        /\ (given = Shipped1 /\ request = 18) => result = 3
        /\ (given = Shipped2 /\ request = 8) => result = 2
        /\ (given = Shipped2 /\ request = 0) => result = 0

\* C8 as stated: within a query every amount in 0..request gets past the
\* memo test at most once.
C8_EachAmountOnce ==
    \A i \in 1..Len(computeCount) : computeCount[i] <= 1

\* C8 amended: within a query every amount in 1..request gets past the memo
\* test at most once and its entry, once written, is not overwritten; a
\* later call for it returns the stored entry.  Amount 0 is never stored.
C8_EachPositiveAmountOnce ==
    [][/\ \A i \in 2..Len(computeCount') : computeCount'[i] <= 1
       /\ Len(memoizationVect') > 0 => memoizationVect'[1] = -1
       /\ \A i \in 2..Len(memoizationVect) :
              (memoizationVect[i] >= 0 /\ pc \notin {"done", "aborted"}) =>
                  /\ memoizationVect'[i] = memoizationVect[i]
                  /\ (pc = "call" /\ Top.request = i - 1) =>
                         retval' = memoizationVect[i] /\ pc' = "return"
      ]_vars

C8_Witness ==
    /\ pc = "return" /\ Len(stack) > 1
    /\ Top.request > 0 /\ Top.it = 0
    /\ computeCount[Top.request + 1] = 1
    /\ retval = memoizationVect[Top.request + 1]

\* C9: for accepted sets of values >= 1 the result never exceeds the
\* largest-first greedy count; for [6,4,1] and 8 it is 2 against greedy's 3.
C9_NotWorseThanGreedy ==
    (pc = "done" /\ AllPositive(given)) =>
        /\ result <= Greedy(given, request)
        /\ (given = Shipped2 /\ request = 8) =>
               result = 2 /\ Greedy(given, request) = 3

C9_Witness ==
    /\ pc = "done" /\ given = Shipped2 /\ request = 8
    /\ result < Greedy(given, request)

\* C10: for accepted sets of values >= 1 the returned count n is achievable
\* by exactly n stamps, so n >= optimum, n = 0 only for request 0, n <= request.
C10_Achievable ==
    (pc = "done" /\ AllPositive(given)) =>
        /\ result >= 0
        /\ result <= request
        /\ request \in Sums(given, result, request)
        /\ result >= Opt(given, request)
        /\ result = 0 <=> request = 0

C10_Witness ==
    /\ pc = "done" /\ given = <<4, 3, 1>> /\ request = 10
    /\ result = 4 /\ Opt(given, request) = 3

====
